---- MODULE Spec2Model ----
(***************************************************************************)
(* Model of keycap_playground: the entry point (src/src/__main__.py), the  *)
(* job planner (make_commands and its helpers,                             *)
(* src/src/keyplay.py 104-197) and the concurrent runner (run,             *)
(* run_all_commands, run_command_on_loop, run_command, process_result,     *)
(* src/src/keyplay.py 35-93 and 200-206) on the asyncio event loop.        *)
(*                                                                         *)
(* Strings are sequences of one-character strings, so that lower(),        *)
(* concatenation and path building are computed, not assumed.              *)
(***************************************************************************)
EXTENDS Integers, Sequences, FiniteSets, TLC

VARIABLES
    phase,        \* position of run(): "start", "planned", "loop", "finished"
    args,         \* the parsed arguments (names, out, file_type, force, legends, max_processes)
    config,       \* the configuration file named by --config, as the filesystem holds it
    parsed,       \* the Namespace object parse_args returned (<<>> before parsing)
    kwargs,       \* history: the keyword arguments of the Keycap(...) calls made here
    built,        \* history: the catalog as constructed at process start
    before,       \* history: the catalog as it was when make_commands was last called
    KEYCAPS,      \* the catalog: a list of keycap objects (mutable attributes)
    files,        \* the filesystem: the set of paths that exist
    commands,     \* the list make_commands returned
    warnings,     \* the names logger.warning reported, in order
    sem_value,    \* asyncio.Semaphore._value
    sem_waiters,  \* asyncio.Semaphore._waiters: task ids, FIFO
    pc,           \* position of each run_command_on_loop coroutine
    ready,        \* the event loop's ready queue of handles, FIFO
    timers,       \* the event loop's scheduled timers, by deadline
    done,         \* as_completed's queue of finished tasks
    mainpc,       \* position of run_all_commands
    results,      \* run_all_commands' list of process_result futures
    finished,     \* history: task ids in the order their coroutines returned
    output,       \* what run_command returned for each invocation
    calls,        \* number of subprocess.check_output calls per invocation
    status,       \* exit code of each invocation's process (-1: not exited)
    processed     \* number of times process_result ran per collected result

vars == <<phase, args, config, parsed, kwargs, built, before, KEYCAPS, files, commands, warnings, sem_value, sem_waiters,
          pc, ready, timers, done, mainpc, results, finished, output, calls, status,
          processed>>

runnerVars == <<sem_value, sem_waiters, pc, ready, timers, done, mainpc, results,
                finished, output, calls, status, processed>>

---------------------------------------------------------------------------
(* Bounds of the model.                                                    *)

\* longest list of invocations the runner is given
MaxCmds == 3
\* largest --max-processes explored
MaxProc == 2
\* longest catalog explored by the planner specification
MaxCatalog == 2
\* longest list of requested names explored by the planner specification
MaxNames == 2

---------------------------------------------------------------------------
(* Strings.                                                                *)

Min(a, b) == IF a < b THEN a ELSE b

\* str.lower() on one character
LowerChar(c) ==
    CASE c = "A" -> "a"
      [] c = "B" -> "b"
      [] c = "X" -> "x"
      [] OTHER -> c

\* str.lower(): keycap.name.lower(), name.lower() (keyplay.py 156)
Lower(s) == [i \in 1..Len(s) |-> LowerChar(s[i])]

STL == <<"s", "t", "l">>
MF3 == <<"3", "m", "f">>
FileTypes == {STL, MF3}

LegendsSuffix == <<"_", "l", "e", "g", "e", "n", "d", "s">>

\* f"{output_path}/{name}.{file_type}" (keyplay.py 106)
FilePath(output_path, name, file_type) ==
    output_path \o <<"/">> \o name \o <<".">> \o file_type

---------------------------------------------------------------------------
(* The parameter model and the serializer (src/riskeycap.py and            *)
(* src/keycap.py are not part of the sources: modelled from the spec).     *)

\* render's default, ["keycap","stem"]
DefaultRender == <<"keycap", "stem">>

\* A keycap object as constructed: output_path and file_type are the
\* defaults until the planner assigns them.
Keycap(name, legends) ==
    [name |-> name, legends |-> legends, render |-> DefaultRender,
     output_path |-> <<".">>, file_type |-> STL]

\* name's placeholder
Placeholder == <<"k", "e", "y", "c", "a", "p">>

\* Variant of the name derivation that never looks at the legends
DerivedName_Placeholder(name, legends) ==
    IF name # <<>> THEN name[1] ELSE Placeholder

\* The name a keycap gets at construction. An optional keyword argument is
\* <<>> when absent and <<value>> when given. A given name is kept; with
\* none, the first legend is the name if it is not empty, else the
\* placeholder; legends default to [""].
DerivedName(name, legends) ==
    LET ls == IF legends = <<>> THEN << <<>> >> ELSE legends[1]
    IN  IF name # <<>> THEN name[1]
        ELSE IF ls[1] # <<>> THEN ls[1]
        ELSE Placeholder

\* Keycap(name=..., legends=...) with optional keyword arguments
construct(name, legends) ==
    Keycap(DerivedName(name, legends),
           IF legends = <<>> THEN << <<>> >> ELSE legends[1])

\* str.startswith
startswith(s, prefix) ==
    Len(s) >= Len(prefix) /\ SubSeq(s, 1, Len(prefix)) = prefix

\* Variant of the name transform without the prefix test
SizePrefix_Always(name, tag) == tag \o name

\* The name transform of a size specialization: the tag is put in front of
\* the resolved name unless the name starts with it
SizePrefix(name, tag) ==
    IF startswith(name, tag) THEN name ELSE tag \o name

\* A size specialization called with optional keyword arguments: the
\* keycap is constructed, then its name is transformed
specialization(tag, name, legends) ==
    LET keycap == construct(name, legends)
    IN  [keycap EXCEPT !.name = SizePrefix(keycap.name, tag)]

\* str(keycap): the invocation string. Kept are the parts the planner and
\* the runner can tell apart: the output file {output_path}/{name}.{file_type},
\* RENDER and LEGENDS.
Str(keycap) ==
    [file |-> FilePath(keycap.output_path, keycap.name, keycap.file_type),
     render |-> keycap.render,
     legends |-> keycap.legends]

---------------------------------------------------------------------------
(* The text of the parameter assignments in str(keycap): the lists among   *)
(* the parameters, as the tests of tests/test_keycap.py and                *)
(* tests/test_keyplay.py show them and, where no test decides, as the spec *)
(* (4.2) describes them.                                                   *)

DQ == "\""
SQ == "'"

\* The close-quote, escaped-quote, reopen-quote sequence: ' " ' " '
EscapedQuote == <<SQ, DQ, SQ, DQ, SQ>>

\* Variant that escapes the first single quote only
RECURSIVE Escape_FirstOnly(_)
Escape_FirstOnly(s) ==
    IF s = <<>> THEN <<>>
    ELSE IF Head(s) = SQ THEN EscapedQuote \o Tail(s)
    ELSE <<Head(s)>> \o Escape_FirstOnly(Tail(s))

\* A string value with every single quote replaced by the escaped sequence
RECURSIVE Escape(_)
Escape(s) ==
    IF s = <<>> THEN <<>>
    ELSE (IF Head(s) = SQ THEN EscapedQuote ELSE <<Head(s)>>) \o Escape(Tail(s))

\* A string value as a literal: escaped, between double quotes
StringLiteral(s) == <<DQ>> \o Escape(s) \o <<DQ>>

\* The texts joined by the separator
RECURSIVE Join(_, _)
Join(texts, sep) ==
    IF texts = <<>> THEN <<>>
    ELSE IF Len(texts) = 1 THEN texts[1]
    ELSE texts[1] \o sep \o Join(Tail(texts), sep)

\* A decimal digit as a character
DigitChar(d) ==
    CASE d = 0 -> "0" [] d = 1 -> "1" [] d = 2 -> "2" [] d = 3 -> "3" [] d = 4 -> "4"
      [] d = 5 -> "5" [] d = 6 -> "6" [] d = 7 -> "7" [] d = 8 -> "8" [] d = 9 -> "9"

\* An integer in decimal, with no forced precision
RECURSIVE NumberLiteral(_)
NumberLiteral(n) ==
    IF n < 0 THEN <<"-">> \o NumberLiteral(0 - n)
    ELSE IF n < 10 THEN <<DigitChar(n)>>
    ELSE NumberLiteral(n \div 10) \o <<DigitChar(n % 10)>>

\* Variant of quote that joins with a comma and a space
quote_Spaced(strings) ==
    <<"[">> \o Join([k \in 1..Len(strings) |-> StringLiteral(strings[k])], <<",", " ">>)
            \o <<"]">>

\* keycap.quote(legends): the elements as string literals, joined by a
\* comma with no space (tests/test_keycap.py 71-76, test_keyplay.py 87)
quote(strings) ==
    <<"[">> \o Join([k \in 1..Len(strings) |-> StringLiteral(strings[k])], <<",">>)
            \o <<"]">>

\* A list of strings other than the legends (render, fonts): the elements
\* as string literals, joined by a comma and a space
\* (RENDER=["keycap", "stem"], test_keycap.py 62; LEGEND_FONTS=["Arial",
\* "Arial", "Arial", "Arial"], test_keyplay.py 88)
StringList(strings) ==
    <<"[">> \o Join([k \in 1..Len(strings) |-> StringLiteral(strings[k])], <<",", " ">>)
            \o <<"]">>

\* A list of numbers: joined by a comma and a space
\* (KEY_ROTATION=[0, 110.1, -90], test_keyplay.py 53)
NumberList(numbers) ==
    <<"[">> \o Join([k \in 1..Len(numbers) |-> NumberLiteral(numbers[k])], <<",", " ">>)
            \o <<"]">>

\* A list of lists of numbers: joined by a comma and a space
NestedList(lists) ==
    <<"[">> \o Join([k \in 1..Len(lists) |-> NumberList(lists[k])], <<",", " ">>)
            \o <<"]">>

\* The list parameters of str(keycap), by parameter name
Parameters(keycap) ==
    [RENDER |-> StringList(keycap.render),
     LEGENDS |-> quote(keycap.legends),
     LEGEND_FONTS |-> StringList(keycap.fonts),
     KEY_ROTATION |-> NumberList(keycap.key_rotation),
     LEGEND_TRANS |-> NestedList(keycap.trans)]

---------------------------------------------------------------------------
(* The job planner, keyplay.py 104-197.                                    *)
(* A helper that returns None or a command returns <<>> or <<command>>     *)
(* here; "if new_command: commands.append(new_command)" is then \o.        *)

\* Variant of should_skip_file that forgets the force flag
should_skip_file_IgnoresForce(output_path, name, file_type, force) ==
    FilePath(output_path, name, file_type) \in files

\* should_skip_file: os.path.exists reads the filesystem
should_skip_file(output_path, name, file_type, force) ==
    LET file_path == FilePath(output_path, name, file_type)
    IN  (~force) /\ (file_path \in files)

\* The keycap after make_keycap_command's two assignments (lines 115-116),
\* which happen before the skip test.
AssignTarget(keycap, output_path, file_type) ==
    [keycap EXCEPT !.output_path = output_path, !.file_type = file_type]

\* Variant of make_keycap_command that serializes the keycap before the
\* assignments of lines 115-116
make_keycap_command_Stale(keycap, output_path, file_type, force) ==
    IF should_skip_file(output_path, keycap.name, file_type, force)
    THEN <<>>
    ELSE <<Str(keycap)>>

\* make_keycap_command's return value: nothing when the file is skipped,
\* else str() of the keycap with output_path and file_type assigned
make_keycap_command(keycap, output_path, file_type, force) ==
    IF should_skip_file(output_path, keycap.name, file_type, force)
    THEN <<>>
    ELSE <<Str(AssignTarget(keycap, output_path, file_type))>>

\* Variant that gives the legend artifact the requested file type
legend_file_type_Requested(keycap) == keycap.file_type

\* make_legend_command, line 132: legends are always STL
legend_file_type(keycap) == STL

\* make_legend_command, lines 131 and 137-142: the legend object, a
\* deepcopy of the keycap with four attributes replaced
Legend(keycap, output_path) ==
    [keycap EXCEPT !.name = keycap.name \o LegendsSuffix,
                   !.output_path = output_path,
                   !.render = <<"legends">>,
                   !.file_type = legend_file_type(keycap)]

\* Variant of make_legend_command without the test of line 128
make_legend_command_NoBlankCheck(keycap, output_path, force) ==
    LET legend == Legend(keycap, output_path)
    IN  IF should_skip_file(output_path, legend.name, legend.file_type, force)
        THEN <<>>
        ELSE <<Str(legend)>>

\* make_legend_command's return value: nothing for a keycap without
\* legends or when the legend file is skipped, else str() of the legend
make_legend_command(keycap, output_path, force) ==
    IF keycap.legends = << <<>> >>
    THEN <<>>
    ELSE LET legend == Legend(keycap, output_path)
         IN  IF should_skip_file(output_path, legend.name, legend.file_type, force)
             THEN <<>>
             ELSE <<Str(legend)>>

\* Variant of make_legend_command that changes the keycap itself instead
\* of a copy
KeycapAfterLegend_Aliased(keycap, output_path, force) ==
    IF make_legend_command(keycap, output_path, force) = <<>>
    THEN keycap
    ELSE Legend(keycap, output_path)

\* The keycap object after make_legend_command: the assignments of lines
\* 139-142 go to the deepcopy of line 137, so it is as it was
KeycapAfterLegend(keycap, output_path, force) == keycap

\* Variant of the loop body that appends the legend command first
PlanKeycap_LegendFirst(st, idx, a) ==
    LET keycap == AssignTarget(st.cat[idx], a.out, a.file_type)
        base == make_keycap_command(st.cat[idx], a.out, a.file_type, a.force)
        leg == IF a.legends THEN make_legend_command(keycap, a.out, a.force) ELSE <<>>
    IN  [st EXCEPT !.cat[idx] = keycap, !.cmds = @ \o leg \o base]

\* Variant of the loop body in which output_path and file_type are
\* assigned only to a keycap that is not skipped
PlanKeycap_AssignAfterSkip(st, idx, a) ==
    LET keycap == AssignTarget(st.cat[idx], a.out, a.file_type)
        base == make_keycap_command(st.cat[idx], a.out, a.file_type, a.force)
        leg == IF a.legends THEN make_legend_command(keycap, a.out, a.force) ELSE <<>>
    IN  [st EXCEPT !.cat[idx] = IF base = <<>> THEN @ ELSE keycap,
                   !.cmds = @ \o base \o leg]

\* The body shared by both loops (lines 158-165 and 178-185) for the keycap
\* at position idx: st is [cat, cmds, warns].
PlanKeycap(st, idx, a) ==
    LET keycap == AssignTarget(st.cat[idx], a.out, a.file_type)
        base == make_keycap_command(st.cat[idx], a.out, a.file_type, a.force)
        leg == IF a.legends THEN make_legend_command(keycap, a.out, a.force) ELSE <<>>
        after == IF a.legends THEN KeycapAfterLegend(keycap, a.out, a.force) ELSE keycap
    IN  [st EXCEPT !.cat[idx] = after, !.cmds = @ \o base \o leg]

\* Variant of the inner loop that compares the names as they are
RECURSIVE FindFrom_CaseSensitive(_, _, _)
FindFrom_CaseSensitive(cat, name, i) ==
    IF i > Len(cat) THEN 0
    ELSE IF cat[i].name = name THEN i
    ELSE FindFrom_CaseSensitive(cat, name, i + 1)

\* The inner loop of process_specific_keycaps: the first catalog position
\* whose name equals the requested one ignoring case, 0 when there is none.
RECURSIVE FindFrom(_, _, _)
FindFrom(cat, name, i) ==
    IF i > Len(cat) THEN 0
    ELSE IF Lower(cat[i].name) = Lower(name) THEN i
    ELSE FindFrom(cat, name, i + 1)

Find(cat, name) == FindFrom(cat, name, 1)

\* Variant of the loop body in which name_found is never set
PlanName_AlwaysWarns(st, name, a) ==
    LET idx == Find(st.cat, name)
        st1 == IF idx = 0 THEN st ELSE PlanKeycap(st, idx, a)
    IN  [st1 EXCEPT !.warns = Append(@, name)]

\* One iteration of "for name in args.names" (lines 153-169)
PlanName(st, name, a) ==
    LET idx == Find(st.cat, name)
    IN  IF idx = 0
        THEN [st EXCEPT !.warns = Append(@, name)]
        ELSE PlanKeycap(st, idx, a)

RECURSIVE SpecificFrom(_, _, _)
SpecificFrom(st, i, a) ==
    IF i > Len(a.names) THEN st
    ELSE SpecificFrom(PlanName(st, a.names[i], a), i + 1, a)

\* process_specific_keycaps
process_specific_keycaps(a) ==
    SpecificFrom([cat |-> KEYCAPS, cmds |-> <<>>, warns |-> <<>>], 1, a)

\* Variant of the loop over the catalog that runs from its end
RECURSIVE AllFrom_Reversed(_, _, _)
AllFrom_Reversed(st, i, a) ==
    IF i > Len(st.cat) THEN st
    ELSE AllFrom_Reversed(PlanKeycap(st, Len(st.cat) + 1 - i, a), i + 1, a)

RECURSIVE AllFrom(_, _, _)
AllFrom(st, i, a) ==
    IF i > Len(st.cat) THEN st
    ELSE AllFrom(PlanKeycap(st, i, a), i + 1, a)

\* process_all_keycaps
process_all_keycaps(a) ==
    AllFrom([cat |-> KEYCAPS, cmds |-> <<>>, warns |-> <<>>], 1, a)

\* make_commands: "if args.names" is false for None and for []
make_commands(a) ==
    IF a.names # <<>> THEN process_specific_keycaps(a) ELSE process_all_keycaps(a)

---------------------------------------------------------------------------
(* The concurrent runner, keyplay.py 35-93 and 200-206, on the asyncio     *)
(* event loop: one thread runs the handles of the ready queue in FIFO      *)
(* order; a handle is a step of a task or a callback. Resolving a future   *)
(* puts the step of the task awaiting it at the end of the ready queue.    *)

Handle(kind, id) == [kind |-> kind, id |-> id]

NumCmds == Len(commands)

\* Variant that leaves the last planned command out of the batch
Tasks_DropLast == 1..(NumCmds - 1)

\* run_all_commands, line 86: one coroutine per planned command
Tasks == 1..NumCmds

\* The orders in which a set of n coroutine objects can be iterated
Orders(n) == {f \in [1..n -> 1..n] : \A i, j \in 1..n : f[i] = f[j] => i = j}

\* Variant of run_command without the except clause: a non-zero exit raises
run_command_Raises(cmd, code) ==
    IF code = 0
    THEN [kind |-> "output", cmd |-> cmd]
    ELSE [kind |-> "raised", cmd |-> cmd]

\* Variant of run_command whose except clause drops the failure's output
run_command_DropsOutput(cmd, code) ==
    IF code = 0
    THEN [kind |-> "output", cmd |-> cmd]
    ELSE [kind |-> "none", cmd |-> cmd]

\* run_command (lines 35-54): the value returned for a command whose
\* process exits with the given code. check_output returns the combined
\* output on exit 0 and raises CalledProcessError otherwise; the handler
\* returns e.output.
run_command(cmd, code) ==
    IF code = 0
    THEN [kind |-> "output", cmd |-> cmd]
    ELSE [kind |-> "e.output", cmd |-> cmd]

\* asyncio.Semaphore.locked(): no permit, or somebody is queued
locked == sem_value = 0 \/ sem_waiters # <<>>

\* Positions in the waiter queue whose future is still pending
PendingWaiters(ws, p) == {k \in 1..Len(ws) : p[ws[k]] = "waiting"}

\* Semaphore._wake_up_next on value v, positions p, ready queue r: the
\* first pending waiter takes the permit and its task is scheduled
WakeUpNext(v, p, r, ws) ==
    LET pend == PendingWaiters(ws, p)
    IN  IF pend = {}
        THEN [v |-> v, p |-> p, r |-> r]
        ELSE LET k == CHOOSE k \in pend : \A m \in pend : k <= m
                 t == ws[k]
             IN  [v |-> v - 1, p |-> [p EXCEPT ![t] = "woken"],
                  r |-> Append(r, Handle("step", t))]

\* Variant in which leaving the block does not give the permit back
Release_Leak(v, p, r, ws) == [v |-> v, p |-> p, r |-> r]

\* Semaphore.release (the exit of "async with semaphore", line 65)
Release(v, p, r, ws) == WakeUpNext(v + 1, p, r, ws)

Remove(ws, t) == SelectSeq(ws, LAMBDA x : x # t)

\* The ids of the results run_all_commands has collected, in order
Collected == [k \in 1..Len(results) |-> results[k].task]

\* An invocation holds a permit from its admission to its release
HoldsPermit(t) == pc[t] \in {"woken", "submitted", "running", "exited", "sleeping", "slept"}
\* ... and is running while its external process is
Running(t) == pc[t] = "running"
Admitted(t) == HoldsPermit(t) \/ pc[t] = "returned"

---------------------------------------------------------------------------
(* Actions of run(args).                                                   *)

\* run, line 203: commands = make_commands(args)
Plan ==
    /\ phase = "start"
    /\ LET r == make_commands(args)
       IN  /\ commands' = r.cmds
           /\ KEYCAPS' = r.cat
           /\ warnings' = r.warns
    /\ phase' = "planned"
    /\ before' = KEYCAPS
    /\ UNCHANGED <<args, config, parsed, kwargs, built, files>>
    /\ UNCHANGED runnerVars

\* A further call of make_commands in the same process, with arguments of
\* its own: the catalog is the module-level list the earlier calls worked
\* on, the command list is a new one. The warnings kept are those of the
\* latest call.
Replan(a) ==
    /\ phase = "planned"
    /\ args' = a
    /\ LET r == make_commands(a)
       IN  /\ commands' = r.cmds
           /\ KEYCAPS' = r.cat
           /\ warnings' = r.warns
    /\ before' = KEYCAPS
    /\ UNCHANGED <<phase, config, parsed, kwargs, built, files>>
    /\ UNCHANGED runnerVars

\* Variant with one permit too many
SemaphoreInit_OffByOne == args.max_processes + 1

\* run, line 204: asyncio.Semaphore(args.max_processes)
SemaphoreInit == args.max_processes

\* run, lines 204-206: the semaphore is created and run_until_complete
\* schedules run_all_commands as the loop's first task
StartLoop ==
    /\ phase = "planned"
    /\ phase' = "loop"
    /\ sem_value' = SemaphoreInit
    /\ sem_waiters' = <<>>
    /\ pc' = [t \in Tasks |-> "coro"]
    /\ output' = [t \in Tasks |-> [kind |-> "none", cmd |-> t]]
    /\ calls' = [t \in Tasks |-> 0]
    /\ status' = [t \in Tasks |-> -1]
    /\ processed' = [t \in Tasks |-> 0]
    /\ ready' = <<Handle("main", 0)>>
    /\ mainpc' = "start"
    /\ UNCHANGED <<timers, done, results, finished>>
    /\ UNCHANGED <<args, config, parsed, kwargs, built, before, KEYCAPS, files, commands, warnings>>

\* The order in which as_completed (line 88) turns the coroutines into
\* tasks: it iterates set(fs), a set of coroutine objects hashed by
\* address, so any order of the list can result.
TaskOrders == Orders(NumCmds)

\* run_all_commands, lines 84-89, first step: the coroutines are created,
\* as_completed schedules one task per coroutine, and the first
\* "await f" suspends on the empty queue (or the loop body never runs
\* when there are no commands and the function returns).
MainStart ==
    /\ phase = "loop" /\ ready # <<>> /\ Head(ready).kind = "main"
    /\ mainpc = "start"
    /\ \E order \in TaskOrders :
          ready' = Tail(ready)
                   \o [k \in 1..NumCmds |-> Handle("step", order[k])]
                   \o (IF NumCmds = 0 THEN <<Handle("stop", 0)>> ELSE <<>>)
    /\ pc' = [t \in Tasks |-> "new"]
    /\ mainpc' = IF NumCmds = 0 THEN "returned" ELSE "getting"
    /\ UNCHANGED <<sem_value, sem_waiters, timers, done, results, finished,
                   output, calls, status, processed>>
    /\ UNCHANGED <<phase, args, config, parsed, kwargs, built, before, KEYCAPS, files, commands, warnings>>

\* run_command_on_loop, line 65, "async with semaphore": acquire()
Acquire(t) ==
    /\ phase = "loop" /\ ready # <<>> /\ Head(ready) = Handle("step", t)
    /\ pc[t] = "new"
    /\ IF ~locked
       THEN /\ sem_value' = sem_value - 1
            /\ pc' = [pc EXCEPT ![t] = "submitted"]
            /\ UNCHANGED sem_waiters
       ELSE /\ sem_waiters' = Append(sem_waiters, t)
            /\ pc' = [pc EXCEPT ![t] = "waiting"]
            /\ UNCHANGED sem_value
    /\ ready' = Tail(ready)
    /\ UNCHANGED <<timers, done, mainpc, results, finished, output, calls, status, processed>>
    /\ UNCHANGED <<phase, args, config, parsed, kwargs, built, before, KEYCAPS, files, commands, warnings>>

\* acquire() resumed after release() handed over a permit: the waiter
\* leaves the queue, passes on a spare permit if there is one, and the
\* coroutine goes on to run_in_executor (lines 66-67)
Resume(t) ==
    /\ phase = "loop" /\ ready # <<>> /\ Head(ready) = Handle("step", t)
    /\ pc[t] = "woken"
    /\ LET ws == Remove(sem_waiters, t)
           p1 == [pc EXCEPT ![t] = "submitted"]
           w == IF sem_value > 0
                THEN WakeUpNext(sem_value, p1, Tail(ready), ws)
                ELSE [v |-> sem_value, p |-> p1, r |-> Tail(ready)]
       IN  /\ sem_waiters' = ws
           /\ sem_value' = w.v
           /\ pc' = w.p
           /\ ready' = w.r
    /\ UNCHANGED <<timers, done, mainpc, results, finished, output, calls, status, processed>>
    /\ UNCHANGED <<phase, args, config, parsed, kwargs, built, before, KEYCAPS, files, commands, warnings>>

\* An executor thread takes the job and run_command calls
\* subprocess.check_output (line 43): the external process starts
ThreadStart(t) ==
    /\ phase = "loop"
    /\ pc[t] = "submitted"
    /\ pc' = [pc EXCEPT ![t] = "running"]
    /\ calls' = [calls EXCEPT ![t] = @ + 1]
    /\ UNCHANGED <<sem_value, sem_waiters, ready, timers, done, mainpc, results,
                   finished, output, status, processed>>
    /\ UNCHANGED <<phase, args, config, parsed, kwargs, built, before, KEYCAPS, files, commands, warnings>>

\* Variant that runs a failed command again
AfterExit_Retry(code) == IF code = 0 THEN "exited" ELSE "submitted"

\* Where an invocation goes when its process exited with the given code:
\* run_command returns in both cases (lines 50-54), nothing is run again
AfterExit(code) == "exited"

\* The external process exits with some code; run_command returns and the
\* executor future resolves, which schedules the coroutine
ProcessExit(t) ==
    /\ phase = "loop"
    /\ pc[t] = "running"
    /\ \E code \in {0, 1} :
          /\ status' = [status EXCEPT ![t] = code]
          /\ IF AfterExit(code) = "exited"
             THEN /\ output' = [output EXCEPT ![t] = run_command(t, code)]
                  /\ ready' = Append(ready, Handle("step", t))
             ELSE UNCHANGED <<output, ready>>
          /\ pc' = [pc EXCEPT ![t] = AfterExit(code)]
    /\ UNCHANGED <<sem_value, sem_waiters, timers, done, mainpc, results,
                   finished, calls, processed>>
    /\ UNCHANGED <<phase, args, config, parsed, kwargs, built, before, KEYCAPS, files, commands, warnings>>

\* run_command_on_loop, lines 67-68: "await run_in_executor" returns the
\* output and the coroutine starts asyncio.sleep(1). (An exception of
\* run_command would instead leave "async with", releasing the permit,
\* and end the task.)
AfterExecutor(t) ==
    /\ phase = "loop" /\ ready # <<>> /\ Head(ready) = Handle("step", t)
    /\ pc[t] = "exited"
    /\ IF output[t].kind = "raised"
       THEN LET w == Release(sem_value, [pc EXCEPT ![t] = "returned"],
                             Append(Tail(ready), Handle("cb", t)), sem_waiters)
            IN  /\ sem_value' = w.v
                /\ pc' = w.p
                /\ ready' = w.r
                /\ finished' = Append(finished, t)
                /\ UNCHANGED timers
       ELSE /\ pc' = [pc EXCEPT ![t] = "sleeping"]
            /\ timers' = Append(timers, t)
            /\ ready' = Tail(ready)
            /\ UNCHANGED <<sem_value, finished>>
    /\ UNCHANGED <<sem_waiters, done, mainpc, results, output, calls, status, processed>>
    /\ UNCHANGED <<phase, args, config, parsed, kwargs, built, before, KEYCAPS, files, commands, warnings>>

\* The earliest timer expires and schedules its sleeper
TimerFire ==
    /\ phase = "loop"
    /\ timers # <<>>
    /\ LET t == Head(timers)
       IN  /\ pc' = [pc EXCEPT ![t] = "slept"]
           /\ ready' = Append(ready, Handle("step", t))
    /\ timers' = Tail(timers)
    /\ UNCHANGED <<sem_value, sem_waiters, done, mainpc, results, finished,
                   output, calls, status, processed>>
    /\ UNCHANGED <<phase, args, config, parsed, kwargs, built, before, KEYCAPS, files, commands, warnings>>

\* run_command_on_loop, line 69: "return output" leaves "async with"
\* (release) and ends the task, which schedules as_completed's
\* _on_completion callback
Return(t) ==
    /\ phase = "loop" /\ ready # <<>> /\ Head(ready) = Handle("step", t)
    /\ pc[t] = "slept"
    /\ LET w == Release(sem_value, [pc EXCEPT ![t] = "returned"],
                        Append(Tail(ready), Handle("cb", t)), sem_waiters)
       IN  /\ sem_value' = w.v
           /\ pc' = w.p
           /\ ready' = w.r
    /\ finished' = Append(finished, t)
    /\ UNCHANGED <<sem_waiters, timers, done, mainpc, results, output, calls, status, processed>>
    /\ UNCHANGED <<phase, args, config, parsed, kwargs, built, before, KEYCAPS, files, commands, warnings>>

\* as_completed's _on_completion: the finished task is put on the queue,
\* which resolves the getter of a suspended "await f"
OnCompletion(t) ==
    /\ phase = "loop" /\ ready # <<>> /\ Head(ready) = Handle("cb", t)
    /\ done' = Append(done, t)
    /\ IF mainpc = "getting"
       THEN /\ mainpc' = "woken"
            /\ ready' = Append(Tail(ready), Handle("main", 0))
       ELSE /\ ready' = Tail(ready)
            /\ UNCHANGED mainpc
    /\ UNCHANGED <<sem_value, sem_waiters, pc, timers, results, finished,
                   output, calls, status, processed>>
    /\ UNCHANGED <<phase, args, config, parsed, kwargs, built, before, KEYCAPS, files, commands, warnings>>

\* Variant that hands the finished tasks over in planned order
Taken_PlannedOrder(q) == SortSeq(q, LAMBDA x, y : x < y)

\* The tasks "for f in as_completed(fs): result = await f" takes from the
\* queue q in one step of run_all_commands: all of them, up to the first
\* whose result is an exception
Taken(q) ==
    LET bad == {k \in 1..Len(q) : output[q[k]].kind = "raised"}
    IN  IF bad = {} THEN q
        ELSE SubSeq(q, 1, (CHOOSE k \in bad : \A m \in bad : k <= m) - 1)

\* Variant that stops after the first result
AllCollected_First(res) == Len(res) >= 1

\* The loop "for f in as_completed(fs)" ends after one result per command
AllCollected(res) == Len(res) = NumCmds

\* run_all_commands, lines 88-93, resumed: while the queue holds finished
\* tasks, "await f" returns without suspending; each result is wrapped in
\* a scheduled process_result task appended to results. After the last
\* one the function returns and run_until_complete's callback is
\* scheduled.
Collect ==
    /\ phase = "loop" /\ ready # <<>> /\ Head(ready).kind = "main"
    /\ mainpc = "woken"
    /\ LET taken == Taken(done)
           res == results \o [k \in 1..Len(taken) |->
                                 [task |-> taken[k], result |-> output[taken[k]]]]
           raised == Len(taken) < Len(done)
           over == raised \/ AllCollected(res)
       IN  /\ results' = res
           /\ done' = SubSeq(done, Len(taken) + 1 + (IF raised THEN 1 ELSE 0), Len(done))
           /\ ready' = Tail(ready)
                       \o [k \in 1..Len(taken) |-> Handle("pr", taken[k])]
                       \o (IF over THEN <<Handle("stop", 0)>> ELSE <<>>)
           /\ mainpc' = IF raised THEN "raised"
                        ELSE IF over THEN "returned" ELSE "getting"
    /\ UNCHANGED <<sem_value, sem_waiters, pc, timers, finished, output, calls, status, processed>>
    /\ UNCHANGED <<phase, args, config, parsed, kwargs, built, before, KEYCAPS, files, commands, warnings>>

\* process_result (lines 72-76), the one step of its task
ProcessResult(t) ==
    /\ phase = "loop" /\ ready # <<>> /\ Head(ready) = Handle("pr", t)
    /\ processed' = [processed EXCEPT ![t] = @ + 1]
    /\ ready' = Tail(ready)
    /\ UNCHANGED <<sem_value, sem_waiters, pc, timers, done, mainpc, results,
                   finished, output, calls, status>>
    /\ UNCHANGED <<phase, args, config, parsed, kwargs, built, before, KEYCAPS, files, commands, warnings>>

\* run_until_complete's done callback stops the loop: run() returns
Stop ==
    /\ phase = "loop" /\ ready # <<>> /\ Head(ready).kind = "stop"
    /\ phase' = "finished"
    /\ ready' = Tail(ready)
    /\ UNCHANGED <<sem_value, sem_waiters, pc, timers, done, mainpc, results,
                   finished, output, calls, status, processed>>
    /\ UNCHANGED <<args, config, parsed, kwargs, built, before, KEYCAPS, files, commands, warnings>>

---------------------------------------------------------------------------
(* Specification of one run.                                               *)

\* The catalog of the runs explored
RunCatalog ==
    << Keycap(<<"A">>, << <<"A">> >>),
       Keycap(<<"B">>, << <<>> >>),
       Keycap(<<"X">>, << <<"X">> >>) >>

\* The argument lists of the runs explored: every catalog entry (no name),
\* an unknown name, or some catalog entries by name (in lower case, in
\* catalog order)
RunNames ==
    {<<>>, << <<"n">> >>} \cup
    {<< Lower(RunCatalog[i].name) >> : i \in 1..Len(RunCatalog)} \cup
    {<< Lower(RunCatalog[p[1]].name), Lower(RunCatalog[p[2]].name) >> :
        p \in {q \in (1..Len(RunCatalog)) \X (1..Len(RunCatalog)) : q[1] < q[2]}}

RunArgs ==
    [names : RunNames, out : {<<"o">>}, file_type : {STL}, force : {TRUE},
     legends : BOOLEAN, max_processes : 0..MaxProc]

\* No --config option was given
NoConfig == [state |-> "none"]

\* No loop is running yet
Idle ==
    /\ phase = "start"
    /\ commands = <<>>
    /\ warnings = <<>>
    /\ sem_value = 0
    /\ sem_waiters = <<>>
    /\ pc = <<>>
    /\ ready = <<>>
    /\ timers = <<>>
    /\ done = <<>>
    /\ mainpc = "start"
    /\ results = <<>>
    /\ finished = <<>>
    /\ output = <<>>
    /\ calls = <<>>
    /\ status = <<>>
    /\ processed = <<>>

Init ==
    /\ KEYCAPS = RunCatalog
    /\ built = KEYCAPS
    /\ before = KEYCAPS
    /\ kwargs = <<>>
    /\ config = NoConfig
    /\ parsed = <<>>
    /\ files = {}
    /\ args \in RunArgs
    /\ Len(make_commands(args).cmds) <= MaxCmds
    /\ Idle

Next ==
    \/ Plan
    \/ StartLoop
    \/ MainStart
    \/ \E t \in Tasks : Acquire(t)
    \/ \E t \in Tasks : Resume(t)
    \/ \E t \in Tasks : ThreadStart(t)
    \/ \E t \in Tasks : ProcessExit(t)
    \/ \E t \in Tasks : AfterExecutor(t)
    \/ TimerFire
    \/ \E t \in Tasks : Return(t)
    \/ \E t \in Tasks : OnCompletion(t)
    \/ Collect
    \/ \E t \in Tasks : ProcessResult(t)
    \/ Stop

Spec == Init /\ [][Next]_vars

\* The loop runs its ready handles, threads and timers make progress, and
\* every external process eventually exits
Fairness ==
    /\ WF_vars(Plan) /\ WF_vars(StartLoop) /\ WF_vars(MainStart)
    /\ WF_vars(\E t \in Tasks : Acquire(t))
    /\ WF_vars(\E t \in Tasks : Resume(t))
    /\ WF_vars(\E t \in Tasks : ThreadStart(t))
    /\ WF_vars(\E t \in Tasks : ProcessExit(t))
    /\ WF_vars(\E t \in Tasks : AfterExecutor(t))
    /\ WF_vars(TimerFire)
    /\ WF_vars(\E t \in Tasks : Return(t))
    /\ WF_vars(\E t \in Tasks : OnCompletion(t))
    /\ WF_vars(Collect)
    /\ WF_vars(\E t \in Tasks : ProcessResult(t))
    /\ WF_vars(Stop)

LiveSpec == Spec /\ Fairness

\* The runs with no permit or a single one, under the same scheduling
FewPermitsArgs == {a \in RunArgs : a.max_processes <= 1}

FewPermitsInit ==
    /\ KEYCAPS = RunCatalog
    /\ built = KEYCAPS
    /\ before = KEYCAPS
    /\ kwargs = <<>>
    /\ config = NoConfig
    /\ parsed = <<>>
    /\ files = {}
    /\ args \in FewPermitsArgs
    /\ Len(make_commands(args).cmds) <= MaxCmds
    /\ Idle

FewPermitsSpec == FewPermitsInit /\ [][Next]_vars /\ Fairness

---------------------------------------------------------------------------
(* Specification of the planner alone: make_commands on the catalogs,      *)
(* filesystems and arguments below.                                        *)

\* sequences over S of length at most n
SeqsUpTo(S, n) == UNION {[1..k -> S] : k \in 0..n}

PlanKeycaps ==
    {Keycap(<<"A">>, << <<"L">> >>), Keycap(<<"a">>, << <<>> >>),
     Keycap(<<"B">>, << <<"L">> >>), Keycap(<<"B">>, << <<>> >>)}

PlanRequests == {<<"a">>, <<"B">>, <<"n">>}

PlanFiles ==
    SUBSET {FilePath(<<"o">>, <<"A">>, STL),
            FilePath(<<"o">>, <<"A">> \o LegendsSuffix, STL)}

PlanArgs ==
    [names : SeqsUpTo(PlanRequests, MaxNames), out : {<<"o">>, <<"p">>},
     file_type : FileTypes, force : BOOLEAN, legends : BOOLEAN,
     max_processes : {1}]

PlanInit ==
    /\ KEYCAPS \in SeqsUpTo(PlanKeycaps, MaxCatalog)
    /\ built = KEYCAPS
    /\ before = KEYCAPS
    /\ kwargs = <<>>
    /\ config = NoConfig
    /\ parsed = <<>>
    /\ files \in PlanFiles
    /\ args \in PlanArgs
    /\ Idle

PlanNext == Plan

PlanSpec == PlanInit /\ [][PlanNext]_vars

---------------------------------------------------------------------------
(* Specification of repeated planning: make_commands called any number of  *)
(* times on the same catalog, with changing output directory, file type,   *)
(* force, legends and names.                                               *)

ReplanKeycaps == {Keycap(<<"A">>, << <<"L">> >>), Keycap(<<"B">>, << <<>> >>)}

ReplanRequests == {<<"a">>, <<"B">>}

\* one filesystem: the stl artifact of A exists in directory o, nothing in p
ReplanFiles == {{FilePath(<<"o">>, <<"A">>, STL)}}

ReplanArgs ==
    [names : {<<>>} \cup {<<n>> : n \in ReplanRequests}, out : {<<"o">>, <<"p">>},
     file_type : FileTypes, force : BOOLEAN, legends : BOOLEAN,
     max_processes : {1}]

ReplanInit ==
    /\ KEYCAPS \in SeqsUpTo(ReplanKeycaps, MaxCatalog)
    /\ built = KEYCAPS
    /\ before = KEYCAPS
    /\ kwargs = <<>>
    /\ config = NoConfig
    /\ parsed = <<>>
    /\ files \in ReplanFiles
    /\ args \in ReplanArgs
    /\ Idle

ReplanNext ==
    \/ Plan
    \/ \E a \in ReplanArgs : Replan(a)

ReplanSpec == ReplanInit /\ [][ReplanNext]_vars

---------------------------------------------------------------------------
(* Specification of the construction of a catalog: keycap objects are      *)
(* built one after the other from keyword arguments.                       *)

\* KEYCAPS gets one more keycap object
Construct(name, legends) ==
    /\ phase = "start"
    /\ Len(KEYCAPS) < MaxCatalog
    /\ LET keycap == construct(name, legends)
       IN  /\ KEYCAPS' = Append(KEYCAPS, keycap)
           /\ built' = Append(built, keycap)
           /\ before' = Append(before, keycap)
    /\ kwargs' = Append(kwargs, [name |-> name, legends |-> legends])
    /\ UNCHANGED <<phase, args, config, parsed, files, commands, warnings>>
    /\ UNCHANGED runnerVars

\* The name arguments: none, a name, the empty name
ConstructNames == {<<>>, << <<"n">> >>, << <<>> >>}

\* The legends arguments: none, [""], ["L"], ["L", "M"]
ConstructLegends ==
    {<<>>, << << <<>> >> >>, << << <<"L">> >> >>, << << <<"L">>, <<"M">> >> >>}

ConstructInit ==
    /\ KEYCAPS = <<>>
    /\ built = <<>>
    /\ before = <<>>
    /\ kwargs = <<>>
    /\ config = NoConfig
    /\ parsed = <<>>
    /\ files = {}
    /\ args \in {a \in RunArgs : a.names = <<>> /\ a.max_processes = 1}
    /\ Idle

ConstructNext ==
    \E name \in ConstructNames, legends \in ConstructLegends : Construct(name, legends)

ConstructSpec == ConstructInit /\ [][ConstructNext]_vars

---------------------------------------------------------------------------
(* Specification of the construction of a catalog by size specializations: *)
(* keycap objects are built from a size tag and keyword arguments, or      *)
(* built again from the name of a keycap built before.                     *)

\* KEYCAPS gets one more keycap object, built by a size specialization
Specialize(tag, name, legends) ==
    /\ phase = "start"
    /\ Len(KEYCAPS) < MaxCatalog
    /\ LET keycap == specialization(tag, name, legends)
       IN  /\ KEYCAPS' = Append(KEYCAPS, keycap)
           /\ built' = Append(built, keycap)
           /\ before' = Append(before, keycap)
    /\ kwargs' = Append(kwargs, [tag |-> tag, name |-> name, legends |-> legends])
    /\ UNCHANGED <<phase, args, config, parsed, files, commands, warnings>>
    /\ UNCHANGED runnerVars

\* The keycap at position i is built again by its specialization, from the
\* name it has
Respecialize(i) ==
    /\ i \in 1..Len(KEYCAPS)
    /\ Specialize(kwargs[i].tag, <<KEYCAPS[i].name>>, kwargs[i].legends)

\* The size tags: "2U_" and "7U_"
SizeTags == {<<"2", "U", "_">>, <<"7", "U", "_">>}

\* The name arguments: none, "x", "2U_x", "2u_x", "2U_", "2U", "7U_2U_x"
SpecializeNames ==
    {<<>>, << <<"x">> >>, << <<"2", "U", "_", "x">> >>, << <<"2", "u", "_", "x">> >>,
     << <<"2", "U", "_">> >>, << <<"2", "U">> >>,
     << <<"7", "U", "_", "2", "U", "_", "x">> >>}

\* The legends arguments: none, ["L"], ["2U_"]
SpecializeLegends == {<<>>, << << <<"L">> >> >>, << << <<"2", "U", "_">> >> >>}

SpecializeNext ==
    \/ \E tag \in SizeTags, name \in SpecializeNames, legends \in SpecializeLegends :
          Specialize(tag, name, legends)
    \/ \E i \in 1..MaxCatalog : Respecialize(i)

SpecializeSpec == ConstructInit /\ [][SpecializeNext]_vars

---------------------------------------------------------------------------
(* Specification of the serializer: the list parameters of str(keycap) for *)
(* keycaps with the lists below. Here the elements of render are sequences *)
(* of characters, like every string whose text is computed.                *)

SerializeLegends ==
    {<< <<>> >>, << <<"A">> >>, << <<"1">>, <<>>, <<"!">>, <<"F", "1">> >>,
     << <<SQ>>, <<"t">> >>, << <<"a", SQ, "b", SQ>> >>, << <<SQ, SQ>>, <<"x">> >>}

SerializeFonts == {<< <<"F">> >>, << <<"F">>, <<"G">> >>}

SerializeRenders ==
    {<< <<"k", "e", "y", "c", "a", "p">>, <<"s", "t", "e", "m">> >>,
     << <<"l", "e", "g", "e", "n", "d", "s">> >>}

SerializeRotations == {<<0, 110, -90>>, <<0, 0, 0>>}

SerializeTrans == {<< <<-3, -2, 2>>, <<3, 3, 1>> >>, << <<0, 0, 0>> >>}

SerializeKeycaps ==
    [name : {<<"n">>}, legends : SerializeLegends, fonts : SerializeFonts,
     render : SerializeRenders, key_rotation : SerializeRotations,
     trans : SerializeTrans, output_path : {<<".">>}, file_type : {STL}]

\* str(keycap) of the next keycap of the catalog
Serialize ==
    /\ phase = "start"
    /\ Len(commands) < Len(KEYCAPS)
    /\ commands' = Append(commands, Parameters(KEYCAPS[Len(commands) + 1]))
    /\ UNCHANGED <<phase, args, config, parsed, kwargs, built, before, KEYCAPS, files, warnings>>
    /\ UNCHANGED runnerVars

SerializeInit ==
    /\ KEYCAPS \in [1..1 -> SerializeKeycaps]
    /\ built = KEYCAPS
    /\ before = KEYCAPS
    /\ kwargs = <<>>
    /\ config = NoConfig
    /\ parsed = <<>>
    /\ files = {}
    /\ args \in {a \in RunArgs : a.names = <<>> /\ a.max_processes = 1 /\ ~a.legends}
    /\ Idle

SerializeNext == Serialize

SerializeSpec == SerializeInit /\ [][SerializeNext]_vars

---------------------------------------------------------------------------
(* The entry point, __main__.py 12-185: the command line is parsed, the    *)
(* configuration file (if one is named) is loaded and merged over the      *)
(* parsed arguments, logging is set up, and the catalog is printed or      *)
(* keyplay.run(args) is started. phase is "argv", "parsed", "merged",      *)
(* "logged", then "printed" or "start"; "usage_error" is argparse's exit   *)
(* with status 2, "config_error" is sys.exit(1).                           *)

OBJ == <<"o", "b", "j">>

INFO == <<"I", "N", "F", "O">>
LOUD == <<"L", "O", "U", "D">>

\* The upper-case attributes of the logging module that are integers
LoggingLevels ==
    {<<"D", "E", "B", "U", "G">>, INFO, <<"W", "A", "R", "N", "I", "N", "G">>,
     <<"W", "A", "R", "N">>, <<"E", "R", "R", "O", "R">>,
     <<"C", "R", "I", "T", "I", "C", "A", "L">>, <<"F", "A", "T", "A", "L">>,
     <<"N", "O", "T", "S", "E", "T">>}

\* choices of --log-level
LogLevelChoices ==
    {<<"D", "E", "B", "U", "G">>, INFO, <<"W", "A", "R", "N", "I", "N", "G">>,
     <<"E", "R", "R", "O", "R">>}

\* str.upper() on one character
UpperChar(c) ==
    CASE c = "i" -> "I"
      [] c = "n" -> "N"
      [] c = "f" -> "F"
      [] c = "o" -> "O"
      [] OTHER -> c

\* str.upper(): log_level.upper()
Upper(s) == [i \in 1..Len(s) |-> UpperChar(s[i])]

\* The value of a decimal digit, -1 for any other character
Digit(c) ==
    CASE c = "0" -> 0
      [] c = "1" -> 1
      [] c = "2" -> 2
      [] c = "3" -> 3
      [] OTHER -> -1

\* type=int of --max-processes: does int(s) succeed, and its value
IsInt(s) == s # <<>> /\ \A i \in 1..Len(s) : Digit(s[i]) >= 0

RECURSIVE ParseInt(_)
ParseInt(s) ==
    IF s = <<>> THEN 0 ELSE 10 * ParseInt(SubSeq(s, 1, Len(s) - 1)) + Digit(s[Len(s)])

\* parse_args accepts the command line
Accepted(argv) ==
    /\ argv.file_type \in FileTypes
    /\ argv.log_level \in LogLevelChoices
    /\ IsInt(argv.max_processes)

\* main, line 161: args = args_parser.parse_args(); an invalid choice or
\* an invalid int value ends the process with status 2
ParseArgs ==
    /\ phase = "argv"
    /\ IF Accepted(args)
       THEN /\ args' = [args EXCEPT !.max_processes = ParseInt(args.max_processes)]
            /\ parsed' = args'
            /\ phase' = "parsed"
       ELSE /\ phase' = "usage_error"
            /\ args' = args
            /\ parsed' = parsed
    /\ UNCHANGED <<config, kwargs, built, before, KEYCAPS, files, commands, warnings>>
    /\ UNCHANGED runnerVars

\* Attributes every argparse.Namespace has besides its settings: the
\* attribute dictionary and the methods of the class (two of them here)
NamespaceAttributes == {"__dict__", "_get_kwargs"}

\* hasattr(merged_args, key), line 75
hasattr(a, key) == key \in DOMAIN a \cup NamespaceAttributes

\* setattr(merged_args, key, value), line 76: assigning __dict__ replaces
\* the attribute dictionary, any other name is set in it
setattr(a, key, value) ==
    IF key = "__dict__"
    THEN value
    ELSE [k \in DOMAIN a \cup {key} |-> IF k = key THEN value ELSE a[k]]

\* merge_config_with_args, lines 59-78: the settings of args are copied
\* to a new Namespace; then every key of the file other than "config"
\* that is an attribute of the copy is set on it, whatever its value. The
\* keys are taken in the file's order, its tables (here __dict__) last.
\* args itself is only read.
merge_config_with_args(c, a) ==
    LET keys == {k \in c.keys \ {"config"} : hasattr(a, k)}
        plain == [k \in DOMAIN a \cup (keys \ {"__dict__"}) |->
                    IF k \in keys THEN c.vals[k] ELSE a[k]]
    IN  IF "__dict__" \in keys
        THEN setattr(plain, "__dict__", c.vals["__dict__"])
        ELSE plain

\* main, lines 164-173: a missing file (FileNotFoundError) and a file
\* tomllib cannot parse (any other exception) end the process with status 1
LoadConfig ==
    /\ phase = "parsed"
    /\ IF ~args.config
       THEN phase' = "merged" /\ args' = args
       ELSE IF config.state \in {"missing", "unparsable"}
       THEN phase' = "config_error" /\ args' = args
       ELSE phase' = "merged" /\ args' = merge_config_with_args(config, args)
    /\ UNCHANGED <<config, parsed, kwargs, built, before, KEYCAPS, files, commands, warnings>>
    /\ UNCHANGED runnerVars

\* setup_logging, lines 15-17: the level is valid when the upper-cased
\* name is an integer attribute of logging
ValidLogLevel(log_level) == Upper(log_level) \in LoggingLevels

\* main, lines 176-180: ValueError of setup_logging ends the process with
\* status 1; reading an attribute args does not have raises AttributeError,
\* which nothing catches
SetupLogging ==
    /\ phase = "merged"
    /\ phase' = IF "log_level" \notin DOMAIN args THEN "crashed"
                ELSE IF ValidLogLevel(args.log_level) THEN "logged"
                ELSE "config_error"
    /\ UNCHANGED <<args, config, parsed, kwargs, built, before, KEYCAPS, files, commands, warnings>>
    /\ UNCHANGED runnerVars

\* main, lines 182-185: print_keycaps() or keyplay.run(args)
Dispatch ==
    /\ phase = "logged"
    /\ phase' = IF args.keycaps THEN "printed" ELSE "start"
    /\ UNCHANGED <<args, config, parsed, kwargs, built, before, KEYCAPS, files, commands, warnings>>
    /\ UNCHANGED runnerVars

\* The configuration files: none named, a path that does not exist, a
\* file that is not TOML, and TOML tables with any of seven keys: three
\* options, the key "config", a key that is no attribute, and two keys
\* that are attributes of a Namespace without being options (__dict__
\* holding a table)
ConfigKeys == {"file_type", "log_level", "max_processes", "config", "color"}
                  \cup NamespaceAttributes

ConfigFiles ==
    {NoConfig, [state |-> "missing"], [state |-> "unparsable"]}
    \cup [state : {"loaded"}, keys : SUBSET ConfigKeys,
          vals : [file_type : {MF3, OBJ}, log_level : {<<"i", "n", "f", "o">>, LOUD},
                  max_processes : {1}, config : {<<"c">>}, color : {<<"c">>},
                  __dict__ : {[file_type |-> OBJ]}, _get_kwargs : {1}]]

\* The command lines
MainArgv ==
    [names : {<<>>, <<<<"a">>>>}, out : {<<"o">>}, file_type : {STL, OBJ},
     force : {TRUE}, legends : BOOLEAN, keycaps : BOOLEAN,
     log_level : {INFO, LOUD}, max_processes : {<<"2">>, <<"x">>},
     config : BOOLEAN]

MainInit ==
    /\ KEYCAPS = RunCatalog
    /\ built = KEYCAPS
    /\ before = KEYCAPS
    /\ kwargs = <<>>
    /\ config \in ConfigFiles
    /\ parsed = <<>>
    /\ files = {}
    /\ args \in MainArgv
    /\ args.config = (config # NoConfig)
    /\ phase = "argv"
    /\ commands = <<>>
    /\ warnings = <<>>
    /\ sem_value = 0
    /\ sem_waiters = <<>>
    /\ pc = <<>>
    /\ ready = <<>>
    /\ timers = <<>>
    /\ done = <<>>
    /\ mainpc = "start"
    /\ results = <<>>
    /\ finished = <<>>
    /\ output = <<>>
    /\ calls = <<>>
    /\ status = <<>>
    /\ processed = <<>>

MainNext ==
    \/ ParseArgs
    \/ LoadConfig
    \/ SetupLogging
    \/ Dispatch
    \/ Plan

MainSpec == MainInit /\ [][MainNext]_vars

---------------------------------------------------------------------------
(* Specification of the planner on catalogs of variants with and without   *)
(* legends, with filesystems that hold base artifacts of both file types   *)
(* and a legend artifact, every requested name being in the catalog.       *)

LegendKeycaps ==
    {Keycap(<<"A">>, << <<"L">> >>), Keycap(<<"a">>, << <<>> >>),
     Keycap(<<"B">>, << <<"L">> >>)}

LegendRequests == {<<"a">>, <<"B">>}

LegendFiles ==
    SUBSET {FilePath(<<"o">>, <<"A">>, STL), FilePath(<<"o">>, <<"A">>, MF3),
            FilePath(<<"o">>, <<"A">> \o LegendsSuffix, STL)}

LegendArgs ==
    [names : SeqsUpTo(LegendRequests, MaxNames), out : {<<"o">>, <<"p">>},
     file_type : FileTypes, force : BOOLEAN, legends : BOOLEAN,
     max_processes : {1}]

LegendInit ==
    /\ KEYCAPS \in SeqsUpTo(LegendKeycaps, MaxCatalog)
    /\ built = KEYCAPS
    /\ before = KEYCAPS
    /\ kwargs = <<>>
    /\ config = NoConfig
    /\ parsed = <<>>
    /\ files \in LegendFiles
    /\ args \in LegendArgs
    /\ Idle

LegendNext == Plan

LegendSpec == LegendInit /\ [][LegendNext]_vars

---------------------------------------------------------------------------
(* Properties of the runner.                                               *)

InLoop == phase \in {"loop", "finished"}

RunningTasks == {t \in Tasks : Running(t)}
PermitHolders == {t \in Tasks : HoldsPermit(t)}

\* How often task t's result has been collected
Occurrences(t) == Cardinality({k \in 1..Len(results) : results[k].task = t})

\* C1: with 1 <= max_processes < number of invocations, never more than
\* max_processes invocations are running (process started, not yet exited)
\* at the same time.
C1_ConcurrencyBound ==
    (InLoop /\ 1 <= args.max_processes /\ args.max_processes < NumCmds)
        => Cardinality(RunningTasks) <= args.max_processes

\* C1 witness: two of three invocations run under max_processes = 2 while
\* the third waits for a permit.
C1_Witness ==
    /\ phase = "loop" /\ NumCmds = 3 /\ args.max_processes = 2
    /\ Cardinality(RunningTasks) = 2
    /\ \E t \in Tasks : pc[t] = "waiting"

\* C2: when the batch has finished and some invocation's process exited
\* non-zero, run_all_commands returned normally and every invocation,
\* the failed one included, completed and had its result collected.
C2_FaultTolerance ==
    (phase = "finished" /\ \E t \in Tasks : status[t] = 1)
        => /\ mainpc = "returned"
           /\ \A u \in Tasks : pc[u] = "returned" /\ Occurrences(u) = 1

\* C2 witness: a finished batch of three with exactly one failure.
C2_Witness ==
    /\ phase = "finished" /\ NumCmds = 3
    /\ Cardinality({t \in Tasks : status[t] = 1}) = 1
    /\ \A u \in Tasks : Occurrences(u) = 1

\* C3: run_command returns a value in both cases: the combined output on
\* exit 0, the output carried by CalledProcessError on a non-zero exit,
\* each after exactly one check_output call.
C3_RunCommandReturnsValue ==
    InLoop =>
        \A t \in Tasks :
            /\ status[t] = 0 => output[t] = [kind |-> "output", cmd |-> t] /\ calls[t] = 1
            /\ status[t] = 1 => output[t] = [kind |-> "e.output", cmd |-> t] /\ calls[t] = 1

\* C3 witness: one invocation returned its output after exit 0, another
\* the failure's output after a non-zero exit.
C3_Witness ==
    /\ InLoop
    /\ \E t, u \in Tasks :
          /\ status[t] = 0 /\ output[t].kind = "output"
          /\ status[u] = 1 /\ output[u].kind = "e.output"

\* C4: the permits held plus the permits available are always
\* max_processes, an invocation whose process runs holds one, and after
\* the batch all of them are available again.
C4_NoPermitLeak ==
    InLoop =>
        /\ sem_value >= 0
        /\ sem_value + Cardinality(PermitHolders) = args.max_processes
        /\ \A t \in Tasks : pc[t] \in {"coro", "new", "waiting", "returned"} \/ HoldsPermit(t)
        /\ phase = "finished" => sem_value = args.max_processes

\* C4 witness: a finished batch with a failed and a successful invocation
\* that had to share the permits.
C4_Witness ==
    /\ phase = "finished" /\ NumCmds = 3 /\ args.max_processes = 2
    /\ sem_value = 2
    /\ \E t, u \in Tasks : status[t] = 0 /\ status[u] = 1

\* C5: with max_processes >= 1 (and every process exiting) the batch
\* eventually finishes, and it is finished only when every invocation has
\* completed.
C5_BatchTermination ==
    /\ (args.max_processes >= 1) => <>(phase = "finished")
    /\ [](phase = "finished" => \A t \in Tasks : pc[t] = "returned")

\* C5 witness: three invocations under one permit have all completed and
\* the batch is finished.
C5_Witness ==
    /\ phase = "finished" /\ NumCmds = 3 /\ args.max_processes = 1
    /\ \A t \in Tasks : pc[t] = "returned"

\* C6: invocations are admitted to the pool in planned order: a later
\* invocation is never admitted while an earlier one is not yet.
C6_PlannedOrderAdmission ==
    InLoop => \A i, j \in Tasks : (i < j /\ Admitted(j)) => Admitted(i)

\* C7: results are collected in completion order: the k-th collected
\* result is the output of the k-th invocation to complete.
C7_CompletionOrderCollection ==
    InLoop =>
        /\ Len(results) <= Len(finished)
        /\ \A k \in 1..Len(results) :
              /\ results[k].task = finished[k]
              /\ results[k].result = output[finished[k]]
              /\ results[k].result.cmd = finished[k]

\* C7 witness: a later invocation's result is collected while an earlier
\* one is still running.
C7_Witness ==
    /\ phase = "loop"
    /\ \E i, j \in Tasks : i < j /\ Occurrences(j) = 1 /\ pc[i] = "running"

\* C8: no invocation is executed, collected or processed more than once,
\* nothing is processed that was not collected, and when the batch has
\* finished each was executed, collected and processed exactly once,
\* whatever its exit code.
C8_ExactlyOnce ==
    InLoop =>
        \A t \in Tasks :
            /\ calls[t] <= 1
            /\ Occurrences(t) <= 1
            /\ processed[t] <= Occurrences(t)
            /\ phase = "finished" =>
                  calls[t] = 1 /\ Occurrences(t) = 1 /\ processed[t] = 1

\* C8 witness: a finished batch in which a failed invocation was executed
\* and processed once.
C8_Witness ==
    /\ phase = "finished" /\ NumCmds >= 2
    /\ \E t \in Tasks : status[t] = 1 /\ calls[t] = 1 /\ processed[t] = 1

---------------------------------------------------------------------------
(* Properties of the planner.                                              *)

\* Catalog positions whose name equals the name ignoring case
Matches(name) == {i \in 1..Len(KEYCAPS) : Lower(KEYCAPS[i].name) = Lower(name)}
Unmatched(name) == Matches(name) = {}
FirstMatch(name) == LET M == Matches(name) IN CHOOSE i \in M : \A m \in M : i <= m

\* The requested names that match, in order
MatchedNames == SelectSeq(args.names, LAMBDA n : ~Unmatched(n))

\* The catalog positions a plan targets, in target order
Targets ==
    IF args.names # <<>>
    THEN [k \in 1..Len(MatchedNames) |-> FirstMatch(MatchedNames[k])]
    ELSE [k \in 1..Len(KEYCAPS) |-> k]

\* The base (keycap) invocations among the commands
BaseCommands == SelectSeq(commands, LAMBDA c : c.render = DefaultRender)

\* How many base invocations the plan holds for file f
BaseCount(f) == Cardinality({k \in 1..Len(BaseCommands) : BaseCommands[k].file = f})

\* How often the plan targets a variant whose base artifact is file f
TargetCount(f) ==
    Cardinality({k \in 1..Len(Targets) :
        FilePath(args.out, KEYCAPS[Targets[k]].name, args.file_type) = f})

\* C9: for every targeted variant, the plan holds no base invocation when
\* its output file exists and force is off, and otherwise exactly one per
\* time it is targeted (force on, or file absent).
C9_SkipLaw ==
    phase = "planned" =>
        LET T == Targets
            B == BaseCommands
            P == [k \in 1..Len(T) |-> FilePath(args.out, KEYCAPS[T[k]].name, args.file_type)]
        IN  \A k \in 1..Len(T) :
                Cardinality({j \in 1..Len(B) : B[j].file = P[k]}) =
                    IF ~args.force /\ P[k] \in files
                    THEN 0
                    ELSE Cardinality({j \in 1..Len(T) : P[j] = P[k]})

\* C9 witness: without force, a targeted variant whose file exists gets no
\* base invocation while another targeted variant gets exactly one.
C9_Witness ==
    /\ phase = "planned" /\ ~args.force
    /\ \E k, m \in 1..Len(Targets) :
          LET f == FilePath(args.out, KEYCAPS[Targets[k]].name, args.file_type)
              g == FilePath(args.out, KEYCAPS[Targets[m]].name, args.file_type)
          IN  /\ f \in files /\ BaseCount(f) = 0
              /\ g \notin files /\ TargetCount(g) = 1 /\ BaseCount(g) = 1

\* C10: planning requested names always completes; the warnings are
\* exactly the unmatched names, one each; no invocation is produced for
\* an unmatched name (none at all when no name matches); and the matched
\* names are still planned (with force, one base invocation each).
C10_UnknownNameLaw ==
    (phase = "planned" /\ args.names # <<>>) =>
        LET T == Targets
            B == BaseCommands
            P == [k \in 1..Len(T) |-> FilePath(args.out, KEYCAPS[T[k]].name, args.file_type)]
        IN  /\ warnings = SelectSeq(args.names, Unmatched)
            /\ (\A k \in 1..Len(args.names) : Unmatched(args.names[k])) => commands = <<>>
            /\ \A k \in 1..Len(B) : \E j \in 1..Len(T) : P[j] = B[k].file
            /\ args.force => Len(B) = Len(T)

\* C10 witness: an unknown name followed by a known one: one warning, and
\* the known name is planned.
C10_Witness ==
    /\ phase = "planned" /\ Len(args.names) = 2
    /\ Unmatched(args.names[1]) /\ ~Unmatched(args.names[2])
    /\ Len(warnings) = 1 /\ Len(BaseCommands) = 1

---------------------------------------------------------------------------
(* Properties of the plan against the catalog as it was when               *)
(* make_commands was called.                                               *)

\* Positions of the catalog at the call whose name equals the name
\* ignoring case, and the first of them
MatchesAtCall(name) == {i \in 1..Len(before) : Lower(before[i].name) = Lower(name)}
FirstAtCall(name) == LET M == MatchesAtCall(name) IN CHOOSE i \in M : \A m \in M : i <= m

\* The requested names with a match, in request order
ResolvedNames == SelectSeq(args.names, LAMBDA n : MatchesAtCall(n) # {})

\* The catalog positions the call targets, in target order
TargetsAtCall ==
    IF args.names # <<>>
    THEN [k \in 1..Len(ResolvedNames) |-> FirstAtCall(ResolvedNames[k])]
    ELSE [k \in 1..Len(before) |-> k]

TargetSet == {TargetsAtCall[k] : k \in 1..Len(TargetsAtCall)}

\* The artifacts of the variant at position i
BasePath(i) == FilePath(args.out, before[i].name, args.file_type)
LegendPath(i) == FilePath(args.out, before[i].name \o LegendsSuffix, STL)
HasLegends(i) == before[i].legends # << <<>> >>

\* The invocations expected of the variant at position i
BaseExpected(i) == args.force \/ BasePath(i) \notin files
LegendExpected(i) ==
    args.legends /\ HasLegends(i) /\ (args.force \/ LegendPath(i) \notin files)

\* The legend invocations among the commands
LegendCommands == SelectSeq(commands, LAMBDA c : c.render = <<"legends">>)

\* The files of a sequence of commands, in order
FilesOf(cmds) == [k \in 1..Len(cmds) |-> cmds[k].file]

\* The concatenation of a sequence of sequences
RECURSIVE Concat(_)
Concat(ss) == IF ss = <<>> THEN <<>> ELSE Head(ss) \o Concat(Tail(ss))

\* C11: with no names requested, every catalog entry is targeted (each
\* gets the call's output directory and file type) and the base invocations
\* are those of the entries in catalog order, less the skipped ones; with
\* force there is exactly one per entry.
C11_AllNamesPlan ==
    (phase = "planned" /\ args.names = <<>>) =>
        /\ \A i \in 1..Len(KEYCAPS) :
              KEYCAPS[i].output_path = args.out /\ KEYCAPS[i].file_type = args.file_type
        /\ FilesOf(BaseCommands) =
              FilesOf(SelectSeq([i \in 1..Len(before) |-> [file |-> BasePath(i), pos |-> i]],
                                LAMBDA e : BaseExpected(e.pos)))
        /\ args.force =>
              FilesOf(BaseCommands) = [i \in 1..Len(before) |-> BasePath(i)]

\* C11 witness: no names, force, a catalog of two differently named
\* entries: two base invocations, first entry first.
C11_Witness ==
    /\ phase = "planned" /\ args.names = <<>> /\ args.force
    /\ Len(KEYCAPS) = 2 /\ KEYCAPS[1].name # KEYCAPS[2].name
    /\ FilesOf(BaseCommands) = <<BasePath(1), BasePath(2)>>

\* C12: a requested name stands for the first catalog entry whose name
\* equals it ignoring case: with force the base invocations are those of
\* the first matches in request order, an occurrence of a name gives at
\* most one base and at most one legend invocation, and no entry other
\* than the first matches is touched.
C12_NameResolution ==
    (phase = "planned" /\ args.names # <<>>) =>
        LET R == ResolvedNames
            F == [k \in 1..Len(R) |-> FirstAtCall(R[k])]
        IN  /\ Len(BaseCommands) <= Len(R)
            /\ Len(LegendCommands) <= Len(R)
            /\ args.force =>
                  FilesOf(BaseCommands) = [k \in 1..Len(R) |-> BasePath(F[k])]
            /\ \A i \in 1..Len(KEYCAPS) :
                  (\A k \in 1..Len(R) : F[k] # i) => KEYCAPS[i] = before[i]

\* C12 witness: one requested name that two entries match ignoring case,
\* the first of them under a differently cased name: one base invocation,
\* for the first entry.
C12_Witness ==
    /\ phase = "planned" /\ Len(args.names) = 1 /\ args.force
    /\ Cardinality(MatchesAtCall(args.names[1])) = 2
    /\ before[1].name # args.names[1]
    /\ before[2].name = args.names[1]
    /\ FilesOf(BaseCommands) = <<BasePath(1)>>
    /\ KEYCAPS[2] = before[2]

\* C13: the plan is the concatenation, in target order, of each target's
\* base invocation (unless skipped) immediately followed by its legend
\* invocation (when one is produced).
C13_PlanOrdering ==
    phase = "planned" =>
        LET T == TargetsAtCall
        IN  commands =
            Concat([k \in 1..Len(T) |->
                LET i == T[k]
                IN  (IF BaseExpected(i)
                     THEN <<[file |-> BasePath(i), render |-> DefaultRender,
                             legends |-> before[i].legends]>>
                     ELSE <<>>)
                    \o (IF LegendExpected(i)
                        THEN <<[file |-> LegendPath(i), render |-> <<"legends">>,
                                legends |-> before[i].legends]>>
                        ELSE <<>>)])

\* C13 witness: one target with legends, legends requested, force: exactly
\* two invocations, the base and then its legend.
C13_Witness ==
    /\ phase = "planned" /\ args.legends /\ args.force
    /\ Len(TargetsAtCall) = 1 /\ HasLegends(TargetsAtCall[1])
    /\ Len(commands) = 2
    /\ commands[1].file = BasePath(TargetsAtCall[1])
    /\ commands[1].render = DefaultRender
    /\ commands[2].file = LegendPath(TargetsAtCall[1])
    /\ commands[2].render = <<"legends">>

\* How many legend invocations the plan holds for file f
LegendCount(f) ==
    Cardinality({k \in 1..Len(LegendCommands) : LegendCommands[k].file = f})

\* C14: a legend invocation is produced only when legends are requested
\* and only for a targeted variant whose legends are not the blank list:
\* without the request the plan holds base invocations only, and no legend
\* invocation carries blank legends.
C14_LegendOnlyWhenRequested ==
    phase = "planned" =>
        LET TS == TargetSet
            LC == LegendCommands
        IN  /\ ~args.legends => commands = BaseCommands
            /\ \A k \in 1..Len(LC) :
                  /\ args.legends
                  /\ LC[k].legends # << <<>> >>
                  /\ \E i \in TS : HasLegends(i) /\ LC[k].file = LegendPath(i)
            /\ (\A i \in TS : ~HasLegends(i)) => commands = BaseCommands

\* C14 witness: legends requested with force, two targets, one with blank
\* legends and one with legends: two base invocations, one legend.
C14_Witness ==
    /\ phase = "planned" /\ args.legends /\ args.force
    /\ Len(TargetsAtCall) = 2
    /\ \E i, j \in TargetSet : HasLegends(i) /\ ~HasLegends(j)
    /\ Len(BaseCommands) = 2 /\ Len(LegendCommands) = 1

\* C15: the legend artifact is {out}/{name}_legends.stl whatever file type
\* is requested, and the existence test is made on that path alone: for a
\* targeted variant with legends the plan holds no legend invocation when
\* that file exists and force is off, else one per time it is targeted,
\* whether or not the base invocation was skipped.
C15_LegendFileTypeFixed ==
    (phase = "planned" /\ args.legends) =>
        LET T == TargetsAtCall
            TS == TargetSet
            LC == LegendCommands
        IN  /\ \A k \in 1..Len(LC) : \E i \in TS : LC[k].file = LegendPath(i)
            /\ \A i \in TS :
                  HasLegends(i) =>
                      Cardinality({k \in 1..Len(LC) : LC[k].file = LegendPath(i)}) =
                          IF ~args.force /\ LegendPath(i) \in files
                          THEN 0
                          ELSE Cardinality({k \in 1..Len(T) :
                                   HasLegends(T[k]) /\ LegendPath(T[k]) = LegendPath(i)})

\* C15 witness: 3mf requested without force, the variant's _legends.stl
\* file exists and its 3mf file does not: the base invocation is planned,
\* the legend invocation is skipped.
C15_Witness ==
    /\ phase = "planned" /\ args.legends /\ ~args.force /\ args.file_type = MF3
    /\ Len(TargetsAtCall) = 1 /\ HasLegends(TargetsAtCall[1])
    /\ LegendPath(TargetsAtCall[1]) \in files
    /\ FilesOf(commands) = <<BasePath(TargetsAtCall[1])>>

\* C16: a legend invocation is that of a copy of the targeted variant with
\* name + "_legends", render ["legends"], file type stl and the call's
\* output directory, every other attribute as in the variant; the variant
\* itself keeps its name, render and legends, and has the requested file
\* type, not the legend's.
C16_LegendIsCopy ==
    phase = "planned" =>
        LET TS == TargetSet
            LC == LegendCommands
        IN  /\ \A k \in 1..Len(LC) :
                  \E i \in TS :
                      LC[k] =
                          Str([before[i] EXCEPT !.name = before[i].name \o LegendsSuffix,
                                                !.output_path = args.out,
                                                !.render = <<"legends">>,
                                                !.file_type = STL])
            /\ \A i \in TS :
                  /\ KEYCAPS[i].name = before[i].name
                  /\ KEYCAPS[i].render = before[i].render
                  /\ KEYCAPS[i].legends = before[i].legends
                  /\ KEYCAPS[i].file_type = args.file_type

\* C16 witness: 3mf requested with legends: a legend invocation is planned
\* for a variant, and the variant still has its name, the default render
\* and file type 3mf.
C16_Witness ==
    /\ phase = "planned" /\ args.legends /\ args.file_type = MF3
    /\ \E i \in TargetSet :
          /\ LegendCount(LegendPath(i)) = 1
          /\ KEYCAPS[i].name = before[i].name
          /\ KEYCAPS[i].name \o LegendsSuffix # KEYCAPS[i].name
          /\ KEYCAPS[i].render = DefaultRender
          /\ KEYCAPS[i].file_type = MF3

\* C17: after any number of plan calls the catalog has the entries it was
\* built with, in the same order, and an entry differs from its
\* construction in output_path and file_type only; every target of a call
\* has the call's output directory and file type, also when its invocation
\* was skipped, and the other entries are as they were before the call.
C17_CatalogMutationFootprint ==
    /\ Len(KEYCAPS) = Len(built)
    /\ \A i \in 1..Len(KEYCAPS) :
          KEYCAPS[i] = [built[i] EXCEPT !.output_path = KEYCAPS[i].output_path,
                                        !.file_type = KEYCAPS[i].file_type]
    /\ phase = "planned" =>
          LET TS == TargetSet
          IN  \A i \in 1..Len(KEYCAPS) :
                  IF i \in TS
                  THEN /\ KEYCAPS[i].output_path = args.out
                       /\ KEYCAPS[i].file_type = args.file_type
                  ELSE KEYCAPS[i] = before[i]

\* C17 witness: a variant planned by an earlier call is targeted again
\* without force while its file exists: no invocation for it, and its
\* output_path is the call's, not the one it was built with nor the one
\* the earlier call gave it.
C17_Witness ==
    /\ phase = "planned" /\ ~args.force
    /\ \E i \in TargetSet :
          /\ BasePath(i) \in files
          /\ \A k \in 1..Len(commands) : commands[k].file # BasePath(i)
          /\ before[i].output_path # built[i].output_path
          /\ KEYCAPS[i].output_path = args.out
          /\ KEYCAPS[i].output_path # before[i].output_path
          /\ KEYCAPS[i].output_path # built[i].output_path

\* C19: every base invocation of a call is for a target of that call and
\* names the file {out}/{name}.{file_type} of that call's arguments, which
\* are the values the variant carries afterwards; with force the base
\* invocations are exactly those files in target order. An earlier call
\* with another directory or file type leaves no trace in it.
C19_BaseOutputPath ==
    phase = "planned" =>
        LET T == TargetsAtCall
            B == BaseCommands
        IN  /\ \A k \in 1..Len(B) :
                  \E j \in 1..Len(T) :
                      /\ B[k].file = BasePath(T[j])
                      /\ B[k] = Str(KEYCAPS[T[j]])
            /\ args.force => FilesOf(B) = [k \in 1..Len(T) |-> BasePath(T[k])]

\* C19 witness: a variant planned by an earlier call into another
\* directory with another file type gets a base invocation for the file
\* of the present call.
C19_Witness ==
    /\ phase = "planned"
    /\ \E i \in TargetSet :
          /\ before[i].output_path # built[i].output_path
          /\ before[i].output_path # args.out
          /\ before[i].file_type # args.file_type
          /\ \E k \in 1..Len(BaseCommands) : BaseCommands[k].file = BasePath(i)
          /\ BasePath(i) # FilePath(before[i].output_path, before[i].name, before[i].file_type)

---------------------------------------------------------------------------
(* Properties of the entry point.                                          *)

\* C18: no invocation is planned under an invalid global setting: when
\* make_commands has run, the configuration file (if named) was found and
\* parsed, the log level is valid and the file type is a supported one.
C18_ConfigurationErrorFatal ==
    phase = "planned" =>
        /\ config.state \in {"none", "loaded"}
        /\ ValidLogLevel(args.log_level)
        /\ args.file_type \in FileTypes

---------------------------------------------------------------------------
(* Properties of construction.                                             *)

\* C20: a keycap constructed without a name and with legends [L], L not
\* empty, is named L; constructed without a name and with legends [""] or
\* without legends it is named "keycap"; a name that is given is kept.
C20_NameDerivation ==
    \A i \in 1..Len(kwargs) :
        LET kw == kwargs[i]
        IN  /\ kw.name # <<>> => KEYCAPS[i].name = kw.name[1]
            /\ (/\ kw.name = <<>>
                /\ kw.legends # <<>>
                /\ Len(kw.legends[1]) = 1
                /\ kw.legends[1][1] # <<>>) => KEYCAPS[i].name = kw.legends[1][1]
            /\ (/\ kw.name = <<>>
                /\ (kw.legends = <<>> \/ kw.legends[1] = << <<>> >>))
                   => KEYCAPS[i].name = <<"k", "e", "y", "c", "a", "p">>

\* C20 witness: two keycaps constructed without a name, one with legends
\* ["L"] and named L, one with legends [""] and named keycap.
C20_Witness ==
    /\ Len(kwargs) = 2
    /\ kwargs[1] = [name |-> <<>>, legends |-> << << <<"L">> >> >>]
    /\ KEYCAPS[1].name = <<"L">>
    /\ kwargs[2] = [name |-> <<>>, legends |-> << << <<>> >> >>]
    /\ KEYCAPS[2].name = <<"k", "e", "y", "c", "a", "p">>

\* Does s begin with t (compared character by character, case-sensitive)
BeginsWith(s, t) == Len(s) >= Len(t) /\ \A k \in 1..Len(t) : s[k] = t[k]

\* The name a call resolves to before the size tag is applied: the name
\* given, else the first legend if not empty, else "keycap"
ResolvedName(kw) ==
    IF kw.name # <<>> THEN kw.name[1]
    ELSE IF kw.legends # <<>> /\ kw.legends[1][1] # <<>> THEN kw.legends[1][1]
    ELSE <<"k", "e", "y", "c", "a", "p">>

\* C21: a keycap built by a specialization with size tag T has a name that
\* starts with T: the resolved name itself when that starts with T, else T
\* followed by the resolved name; so a keycap built again from a name that
\* has the prefix keeps the name.
C21_SizePrefixIdempotent ==
    \A i \in 1..Len(kwargs) :
        LET kw == kwargs[i]
            r == ResolvedName(kw)
        IN  /\ BeginsWith(KEYCAPS[i].name, kw.tag)
            /\ BeginsWith(r, kw.tag) => KEYCAPS[i].name = r
            /\ ~BeginsWith(r, kw.tag) => KEYCAPS[i].name = kw.tag \o r

\* C21 witness: a keycap named "x" built with tag "2U_" is named "2U_x",
\* and the keycap built again from that name with the same tag is named
\* "2U_x" too.
C21_Witness ==
    /\ Len(kwargs) = 2
    /\ kwargs[1].name = << <<"x">> >> /\ kwargs[1].tag = <<"2", "U", "_">>
    /\ KEYCAPS[1].name = <<"2", "U", "_", "x">>
    /\ kwargs[2].name = <<KEYCAPS[1].name>> /\ kwargs[2].tag = kwargs[1].tag
    /\ KEYCAPS[2].name = KEYCAPS[1].name

---------------------------------------------------------------------------
(* Properties of the serializer.                                           *)

\* The text is between brackets
Bracketed(t) == Len(t) >= 2 /\ t[1] = "[" /\ t[Len(t)] = "]"

\* No comma of the text is followed by a space
NoSpaceAfterComma(t) ==
    \A k \in 1..Len(t) : t[k] = "," => (k < Len(t) /\ t[k + 1] # " ")

\* Every comma of the text is followed by exactly one space
OneSpaceAfterComma(t) ==
    \A k \in 1..Len(t) :
        t[k] = "," => /\ k + 2 <= Len(t)
                      /\ t[k + 1] = " "
                      /\ t[k + 2] # " "

\* How often character c is in the text
CountChar(t, c) == Cardinality({k \in 1..Len(t) : t[k] = c})

\* The single quotes of a list of strings
QuotesIn(strings) == CountChar(Concat(strings), SQ)

\* A list of n strings as a text: n - 1 commas, each element between
\* double quotes (an escaped single quote brings two more)
QuotedElements(t, strings) ==
    /\ Bracketed(t)
    /\ CountChar(t, ",") = Len(strings) - 1
    /\ CountChar(t, DQ) = 2 * Len(strings) + 2 * QuotesIn(strings)

\* C22 as claimed: legends, fonts and render are bracketed lists of
\* double-quoted elements with no space after the commas; lists of numbers
\* and nested lists have exactly one space after each comma.
C22_ListFormatting ==
    \A i \in 1..Len(commands) :
        LET c == commands[i]
            k == KEYCAPS[i]
        IN  /\ QuotedElements(c.LEGENDS, k.legends) /\ NoSpaceAfterComma(c.LEGENDS)
            /\ QuotedElements(c.LEGEND_FONTS, k.fonts) /\ NoSpaceAfterComma(c.LEGEND_FONTS)
            /\ QuotedElements(c.RENDER, k.render) /\ NoSpaceAfterComma(c.RENDER)
            /\ Bracketed(c.KEY_ROTATION) /\ OneSpaceAfterComma(c.KEY_ROTATION)
            /\ Bracketed(c.LEGEND_TRANS) /\ OneSpaceAfterComma(c.LEGEND_TRANS)

\* C22 as amended: only legends are a list with no space after the commas;
\* fonts and render are bracketed lists of double-quoted elements with
\* exactly one space after each comma, like lists of numbers and nested
\* lists.
C22_ListFormattingAmended ==
    \A i \in 1..Len(commands) :
        LET c == commands[i]
            k == KEYCAPS[i]
        IN  /\ QuotedElements(c.LEGENDS, k.legends) /\ NoSpaceAfterComma(c.LEGENDS)
            /\ QuotedElements(c.LEGEND_FONTS, k.fonts) /\ OneSpaceAfterComma(c.LEGEND_FONTS)
            /\ QuotedElements(c.RENDER, k.render) /\ OneSpaceAfterComma(c.RENDER)
            /\ Bracketed(c.KEY_ROTATION) /\ OneSpaceAfterComma(c.KEY_ROTATION)
            /\ Bracketed(c.LEGEND_TRANS) /\ OneSpaceAfterComma(c.LEGEND_TRANS)

\* C22 witness: the legends ["1","","!","F1"] and two fonts are
\* serialized: three commas and no space in LEGENDS, a comma and a space in
\* LEGEND_FONTS and in RENDER, spaces after the commas of KEY_ROTATION.
C22_Witness ==
    /\ Len(commands) = 1
    /\ KEYCAPS[1].legends = << <<"1">>, <<>>, <<"!">>, <<"F", "1">> >>
    /\ commands[1].LEGENDS =
          <<"[", DQ, "1", DQ, ",", DQ, DQ, ",", DQ, "!", DQ, ",", DQ, "F", "1", DQ, "]">>
    /\ commands[1].LEGEND_FONTS = <<"[", DQ, "F", DQ, ",", " ", DQ, "G", DQ, "]">>
    /\ CountChar(commands[1].RENDER, " ") = 1
    /\ commands[1].KEY_ROTATION =
          <<"[", "0", ",", " ", "1", "1", "0", ",", " ", "-", "9", "0", "]">>

\* How often the escaped sequence is in the text
EscapedCount(t) ==
    Cardinality({k \in 1..Len(t) : k + 4 <= Len(t) /\ SubSeq(t, k, k + 4) = <<SQ, DQ, SQ, DQ, SQ>>})

\* C23: in the text of the legends the escaped sequence is there once per
\* single quote of the legends and no single quote is outside of it, the
\* other characters of the legends are there unchanged and in order, and
\* legends without single quotes are as they are between their double
\* quotes.
C23_SingleQuoteEscaping ==
    \A i \in 1..Len(commands) :
        LET t == commands[i].LEGENDS
            ls == KEYCAPS[i].legends
            q == QuotesIn(ls)
            all == Concat(ls)
        IN  /\ EscapedCount(t) = q
            /\ CountChar(t, SQ) = 3 * q
            /\ Len(t) = 2 + (Len(ls) - 1) + 2 * Len(ls) + Len(all) + 4 * q
            /\ SelectSeq(t, LAMBDA c : c \notin {"[", "]", ",", DQ, SQ})
                  = SelectSeq(all, LAMBDA c : c # SQ)
            /\ q = 0 => SelectSeq(t, LAMBDA c : c \notin {"[", "]", ",", DQ}) = all

\* C23 witness: the legend a'b' is serialized with the escaped sequence
\* twice.
C23_Witness ==
    /\ Len(commands) = 1
    /\ KEYCAPS[1].legends = << <<"a", SQ, "b", SQ>> >>
    /\ commands[1].LEGENDS =
          <<"[", DQ, "a", SQ, DQ, SQ, DQ, SQ, "b", SQ, DQ, SQ, DQ, SQ, DQ, "]">>

---------------------------------------------------------------------------
(* Properties of the runner: hung processes, planning before execution,    *)
(* no permits.                                                             *)

\* The invocations whose external process has been started and has not exited
Hung == {t \in DOMAIN pc : pc[t] = "running"}

\* C24: while the external process of an admitted invocation has not
\* exited, the permits free or held by the other invocations are
\* max_processes - 1 and the batch is not finished; and no step of the
\* runner takes an invocation out of that state other than the exit of its
\* process (there is no timeout and no cancellation), nor finishes the batch.
C24_NoTimeoutNoCancellation ==
    /\ [](\A t \in Hung :
            /\ phase = "loop"
            /\ sem_value + Cardinality({u \in DOMAIN pc : u # t /\ HoldsPermit(u)})
                  = args.max_processes - 1)
    /\ [][\A t \in Hung :
            status'[t] = -1 => (pc'[t] = "running" /\ phase' = "loop")]_vars

\* C24 witness: with two permits, one process has not exited while
\* another invocation has returned and a third has taken the permit it
\* gave back: no permit is free.
C24_Witness ==
    /\ phase = "loop" /\ args.max_processes = 2
    /\ \E t, u, w \in DOMAIN pc :
          /\ pc[t] = "running" /\ status[t] = -1
          /\ pc[u] = "returned"
          /\ pc[w] = "running"
          /\ w # t
    /\ sem_value = 0

\* The planned commands whose external process has been started
Executed == {t \in DOMAIN calls : calls[t] > 0}

\* C25: until the loop is started no coroutine exists and no process has
\* been started; from then on the command list is the complete plan of
\* the arguments and only planned commands are executed, and at the end
\* the executed commands are exactly the planned ones. Planning starts no
\* process and writes no file, and no step after planning changes the list.
C25_PlanningPrecedesExecution ==
    /\ [](/\ phase \in {"start", "planned"} => pc = <<>> /\ Executed = {}
          /\ phase \notin {"start", "planned"} =>
                /\ commands = make_commands(args).cmds
                /\ DOMAIN pc = 1..Len(commands)
                /\ Executed \subseteq 1..Len(commands)
          /\ phase = "finished" => Executed = 1..Len(commands))
    /\ [][/\ phase = "start" => (files' = files /\ calls' = calls /\ pc' = pc)
          /\ phase # "start" => commands' = commands]_vars

\* C25 witness: a finished batch of a plan with legend commands, all of
\* them executed.
C25_Witness ==
    /\ phase = "finished" /\ args.legends /\ NumCmds >= 2
    /\ Executed = 1..Len(commands)
    /\ commands = make_commands(args).cmds

\* A batch with at least one command and a semaphore of no permit
NoPermit == phase # "start" /\ args.max_processes = 0 /\ commands # <<>>

\* A batch with no command
EmptyPlan == phase # "start" /\ commands = <<>>

\* Every invocation waits in the semaphore's queue and the loop is idle
AllBlocked ==
    /\ phase = "loop" /\ ready = <<>> /\ timers = <<>>
    /\ \A t \in DOMAIN pc : pc[t] = "waiting"
    /\ Len(sem_waiters) = Len(commands)

\* C26: with no permit and a command to run, no process is ever started,
\* no invocation gets past admission and the batch is never finished;
\* with nothing planned no process is started and no permit taken,
\* whatever the number of permits. Both situations last once planning has
\* produced them. The first leads to every invocation waiting for a
\* permit, a state no step leaves; the second leads to the finished batch.
C26_NoPermitBlocksForever ==
    /\ [](NoPermit =>
            /\ phase # "finished"
            /\ Executed = {}
            /\ \A t \in DOMAIN pc : pc[t] \in {"coro", "new", "waiting"})
    /\ [](EmptyPlan =>
            /\ Executed = {} /\ pc = <<>> /\ sem_waiters = <<>> /\ timers = <<>>
            /\ phase = "loop" => sem_value = args.max_processes)
    /\ [][/\ NoPermit => NoPermit'
          /\ EmptyPlan => EmptyPlan'
          /\ ~(NoPermit /\ AllBlocked)]_vars
    /\ ((NoPermit \/ EmptyPlan) ~>
            ((NoPermit /\ AllBlocked) \/ (EmptyPlan /\ phase = "finished")))

\* C26 witness: two or more planned commands, no permit, and every
\* invocation in the semaphore's queue with nothing left to run.
C26_Witness ==
    /\ NoPermit /\ AllBlocked
    /\ Len(commands) >= 2
    /\ sem_value = 0 /\ Executed = {}

---------------------------------------------------------------------------
(* Properties of the merge of the configuration file.                      *)

====
